---- MODULE Spec2Model ----
(***************************************************************************)
(* PointCloud2Decoder (unitree_webrtc_connect/lidar/pointcloud2_decoder.py) *)
(*                                                                         *)
(* decode() and its three layout decoders are modelled as operators that   *)
(* compute what the Python code computes on a byte buffer; a caller that   *)
(* invokes decode() repeatedly on one decoder object is the state machine. *)
(*                                                                         *)
(* Values:                                                                 *)
(*   - an argument is [type, itemsize, mem]: its Python type, the size of  *)
(*     one element as len() counts them, and its memory as bytes 0..255;   *)
(*   - a Python dict is a record whose DOMAIN is the set of keys present;  *)
(*   - a float32 read from the buffer is its IEEE-754 fields               *)
(*     [sign, exponent, fraction] (little-endian reinterpretation);        *)
(*   - the float32 quotient int16/1000.0 is the rational [num, den]:       *)
(*     astype(float32) is exact on an int16 and the correctly rounded      *)
(*     quotient is a function of the rational alone;                       *)
(*   - a fallible call yields Ok(v) or Raise(cls, msg).                    *)
(***************************************************************************)
EXTENDS Integers, Sequences, FiniteSets, TLC

\* ------------------------------------------------------------------ bounds
MaxLen == 48
MaxCalls == 3

\* ------------------------------------------------------------------ inputs
\* Byte patterns the caller's buffers are filled with: byte i (0-based) of
\* pattern <<a, b>> is (a*i + b) mod 256.
FillParams == {<<37, 11>>}

Fill(p, n) == [i \in 1..n |-> (p[1] * (i - 1) + p[2]) % 256]

\* int16 [1000, 2000, -500, 0, 0, 0], little-endian.
Sample12 == <<232, 3, 208, 7, 12, 254, 0, 0, 0, 0, 0, 0>>

\* float32 [1.5, 2.5, 3.5, 0.9], little-endian.
Sample16 == <<0, 0, 192, 63, 0, 0, 32, 64, 0, 0, 96, 64, 102, 102, 102, 63>>

Bytes(mem) == [type |-> "bytes", itemsize |-> 1, mem |-> mem]

\* array.array('h', ...): a buffer whose len() counts 2-byte items.
ArrayH(mem) == [type |-> "array", itemsize |-> 2, mem |-> mem]

\* str: has a length, does not export a buffer.
Str(mem) == [type |-> "str", itemsize |-> 1, mem |-> mem]

None == [type |-> "NoneType", itemsize |-> 1, mem |-> <<>>]

BytesInputs ==
    {Bytes(Fill(p, n)) : p \in FillParams, n \in 0..MaxLen}
        \cup {Bytes(Sample12), Bytes(Sample16)}

OtherInputs ==
    {ArrayH(Fill(<<37, 11>>, 2 * n)) : n \in {12, 13, 16}}
        \cup {Str(Fill(<<1, 97>>, n)) : n \in {12, 13, 16}}
        \cup {None}

Inputs == BytesInputs \cup OtherInputs

Metadatas == {[given |-> FALSE], [given |-> TRUE, format |-> "xyz_float32"]}

\* ------------------------------------------------------- Python and numpy
Ok(v) == [ok |-> TRUE, val |-> v]

Raise(cls, msg) == [ok |-> FALSE, cls |-> cls, msg |-> msg]

\* len(binary_data)
len(x) ==
    IF x.type = "NoneType"
    THEN Raise("TypeError", "object of type 'NoneType' has no len()")
    ELSE Ok(Len(x.mem) \div x.itemsize)

\* One little-endian signed 16-bit integer.
int16(b) ==
    LET u == b[1] + 256 * b[2]
    IN  IF u >= 32768 THEN u - 65536 ELSE u

\* One little-endian IEEE-754 binary32, as its fields.
float32(b) ==
    [sign     |-> b[4] \div 128,
     exponent |-> (b[4] % 128) * 2 + b[3] \div 128,
     fraction |-> (b[3] % 128) * 65536 + b[2] * 256 + b[1]]

dtype_itemsize(dtype) == IF dtype = "int16" THEN 2 ELSE 4

dtype_item(dtype, b) == IF dtype = "int16" THEN int16(b) ELSE float32(b)

\* np.frombuffer(x, dtype=dtype)
frombuffer(x, dtype) ==
    LET size == dtype_itemsize(dtype)
    IN  IF x.type \notin {"bytes", "array"}
        THEN Raise("TypeError", "a bytes-like object is required")
        ELSE IF Len(x.mem) % size # 0
        THEN Raise("ValueError", "buffer size must be a multiple of element size")
        ELSE Ok([k \in 1..(Len(x.mem) \div size) |->
                    dtype_item(dtype, SubSeq(x.mem, size * (k - 1) + 1, size * k))])

\* a.reshape((rows, cols))
reshape(a, rows, cols) ==
    IF Len(a) # rows * cols
    THEN Raise("ValueError", "cannot reshape array")
    ELSE Ok([r \in 1..rows |-> [c \in 1..cols |-> a[(r - 1) * cols + c]]])

\* a[:, lo:hi] with 0-based lo, exclusive hi
columns(a, lo, hi) == [r \in 1..Len(a) |-> SubSeq(a[r], lo + 1, hi)]

\* a[:, c] with 0-based c
column(a, c) == [r \in 1..Len(a) |-> a[r][c + 1]]

\* int16 -> float32, exact
astype_float32(i) == [num |-> i, den |-> 1]

\* a / d, elementwise on one element
truediv(x, d) == [num |-> x.num, den |-> x.den * d]

\* ------------------------------------------------------- layout decoders
decode_xyz_float32(binary_data) ==
    LET n == len(binary_data)
    IN  IF ~n.ok THEN n
        ELSE
        LET num_points == n.val \div 12
            buf == frombuffer(binary_data, "float32")
        IN  IF ~buf.ok THEN buf
            ELSE
            LET points == reshape(buf.val, num_points, 3)
            IN  IF ~points.ok THEN points
                ELSE Ok([point_count |-> num_points,
                         points      |-> points.val,
                         format      |-> "xyz_float32"])

\* Mutant: the intensity is read from the z column, data[:, 2].
decode_xyzi_float32_intensity_from_z(binary_data) ==
    LET n == len(binary_data)
    IN  IF ~n.ok THEN n
        ELSE
        LET num_points == n.val \div 16
            buf == frombuffer(binary_data, "float32")
        IN  IF ~buf.ok THEN buf
            ELSE
            LET data == reshape(buf.val, num_points, 4)
            IN  IF ~data.ok THEN data
                ELSE Ok([point_count |-> num_points,
                         points      |-> columns(data.val, 0, 3),
                         intensities |-> column(data.val, 2),
                         format      |-> "xyzi_float32"])

decode_xyzi_float32(binary_data) ==
    LET n == len(binary_data)
    IN  IF ~n.ok THEN n
        ELSE
        LET num_points == n.val \div 16
            buf == frombuffer(binary_data, "float32")
        IN  IF ~buf.ok THEN buf
            ELSE
            LET data == reshape(buf.val, num_points, 4)
            IN  IF ~data.ok THEN data
                ELSE Ok([point_count |-> num_points,
                         points      |-> columns(data.val, 0, 3),
                         intensities |-> column(data.val, 3),
                         format      |-> "xyzi_float32"])

\* Mutant: the length guard is missing.
decode_int16_12byte_no_guard(binary_data) ==
    LET n == len(binary_data)
    IN  IF ~n.ok THEN n
        ELSE
        LET num_points == n.val \div 12
            buf == frombuffer(binary_data, "int16")
        IN  IF ~buf.ok THEN buf
            ELSE
            LET data_int16 == reshape(buf.val, num_points, 6)
            IN  IF ~data_int16.ok THEN data_int16
                ELSE
                LET xyz_raw == [r \in 1..num_points |->
                                   [c \in 1..3 |->
                                       astype_float32(columns(data_int16.val, 0, 3)[r][c])]]
                    points == [r \in 1..num_points |->
                                   [c \in 1..3 |-> truediv(xyz_raw[r][c], 1000)]]
                IN  Ok([point_count |-> num_points,
                        points      |-> points,
                        format      |-> "g1_slam_int16_12byte"])

\* Mutant: no length guard, and only the whole records at the front of the
\* buffer are read (np.frombuffer(..., count=num_points * 6)).
decode_int16_12byte_truncating(binary_data) ==
    LET n == len(binary_data)
    IN  IF ~n.ok THEN n
        ELSE
        LET num_points == n.val \div 12
            head == [binary_data EXCEPT !.mem = SubSeq(@, 1, 12 * num_points)]
            buf == frombuffer(head, "int16")
        IN  IF ~buf.ok THEN buf
            ELSE
            LET data_int16 == reshape(buf.val, num_points, 6)
            IN  IF ~data_int16.ok THEN data_int16
                ELSE
                LET xyz_raw == [r \in 1..num_points |->
                                   [c \in 1..3 |->
                                       astype_float32(columns(data_int16.val, 0, 3)[r][c])]]
                    points == [r \in 1..num_points |->
                                   [c \in 1..3 |-> truediv(xyz_raw[r][c], 1000)]]
                IN  Ok([point_count |-> num_points,
                        points      |-> points,
                        format      |-> "g1_slam_int16_12byte"])

\* Mutant: point_count is the number of int16 values, data_int16.size.
decode_int16_12byte_count_values(binary_data) ==
    LET n == len(binary_data)
    IN  IF ~n.ok THEN n
        ELSE IF n.val % 12 # 0
        THEN Ok([point_count |-> 0, points |-> <<>>])
        ELSE
        LET num_points == n.val \div 12
            buf == frombuffer(binary_data, "int16")
        IN  IF ~buf.ok THEN buf
            ELSE
            LET data_int16 == reshape(buf.val, num_points, 6)
            IN  IF ~data_int16.ok THEN data_int16
                ELSE
                LET xyz_raw == [r \in 1..num_points |->
                                   [c \in 1..3 |->
                                       astype_float32(columns(data_int16.val, 0, 3)[r][c])]]
                    points == [r \in 1..num_points |->
                                   [c \in 1..3 |-> truediv(xyz_raw[r][c], 1000)]]
                IN  Ok([point_count |-> Len(buf.val),
                        points      |-> points,
                        format      |-> "g1_slam_int16_12byte"])

\* Mutant: x, y, z are read from the last three fields, data_int16[:, 3:].
decode_int16_12byte_last_three(binary_data) ==
    LET n == len(binary_data)
    IN  IF ~n.ok THEN n
        ELSE IF n.val % 12 # 0
        THEN Ok([point_count |-> 0, points |-> <<>>])
        ELSE
        LET num_points == n.val \div 12
            buf == frombuffer(binary_data, "int16")
        IN  IF ~buf.ok THEN buf
            ELSE
            LET data_int16 == reshape(buf.val, num_points, 6)
            IN  IF ~data_int16.ok THEN data_int16
                ELSE
                LET xyz_raw == [r \in 1..num_points |->
                                   [c \in 1..3 |->
                                       astype_float32(columns(data_int16.val, 3, 6)[r][c])]]
                    points == [r \in 1..num_points |->
                                   [c \in 1..3 |-> truediv(xyz_raw[r][c], 1000)]]
                IN  Ok([point_count |-> num_points,
                        points      |-> points,
                        format      |-> "g1_slam_int16_12byte"])

decode_int16_12byte(binary_data) ==
    LET n == len(binary_data)
    IN  IF ~n.ok THEN n
        ELSE IF n.val % 12 # 0
        THEN Ok([point_count |-> 0, points |-> <<>>])
        ELSE
        LET num_points == n.val \div 12
            buf == frombuffer(binary_data, "int16")
        IN  IF ~buf.ok THEN buf
            ELSE
            LET data_int16 == reshape(buf.val, num_points, 6)
            IN  IF ~data_int16.ok THEN data_int16
                ELSE
                LET xyz_raw == [r \in 1..num_points |->
                                   [c \in 1..3 |->
                                       astype_float32(columns(data_int16.val, 0, 3)[r][c])]]
                    points == [r \in 1..num_points |->
                                   [c \in 1..3 |-> truediv(xyz_raw[r][c], 1000)]]
                IN  Ok([point_count |-> num_points,
                        points      |-> points,
                        format      |-> "g1_slam_int16_12byte"])

\* ----------------------------------------------------------------- decode
\* Mutant: a format named by the metadata overrides the length heuristic.
decode_try_metadata_override(binary_data, metadata) ==
    LET data_len == len(binary_data)
    IN  IF ~data_len.ok THEN data_len
        ELSE IF data_len.val = 0
        THEN Ok([point_count |-> 0, points |-> <<>>])
        ELSE IF metadata.given /\ metadata.format = "xyzi_float32"
        THEN decode_xyzi_float32(binary_data)
        ELSE IF metadata.given /\ metadata.format = "xyz_float32"
        THEN decode_xyz_float32(binary_data)
        ELSE IF data_len.val % 12 = 0
        THEN decode_int16_12byte(binary_data)
        ELSE IF data_len.val % 16 = 0
        THEN decode_xyzi_float32(binary_data)
        ELSE decode_int16_12byte(binary_data)

\* Mutant: the float XYZ layout is tried before the quantized layout.
decode_try_xyz_first(binary_data, metadata) ==
    LET data_len == len(binary_data)
    IN  IF ~data_len.ok THEN data_len
        ELSE IF data_len.val = 0
        THEN Ok([point_count |-> 0, points |-> <<>>])
        ELSE IF data_len.val % 12 = 0
        THEN decode_xyz_float32(binary_data)
        ELSE IF data_len.val % 16 = 0
        THEN decode_xyzi_float32(binary_data)
        ELSE IF data_len.val % 12 = 0
        THEN decode_int16_12byte(binary_data)
        ELSE decode_int16_12byte(binary_data)

\* Mutant: the 16-byte layout is tried before the 12-byte layout.
decode_try_16_first(binary_data, metadata) ==
    LET data_len == len(binary_data)
    IN  IF ~data_len.ok THEN data_len
        ELSE IF data_len.val = 0
        THEN Ok([point_count |-> 0, points |-> <<>>])
        ELSE IF data_len.val % 16 = 0
        THEN decode_xyzi_float32(binary_data)
        ELSE IF data_len.val % 12 = 0
        THEN decode_int16_12byte(binary_data)
        ELSE decode_int16_12byte(binary_data)

\* The body of the try block.
decode_try(binary_data, metadata) ==
    LET data_len == len(binary_data)
    IN  IF ~data_len.ok THEN data_len
        ELSE IF data_len.val = 0
        THEN Ok([point_count |-> 0, points |-> <<>>])
        ELSE IF data_len.val % 12 = 0
        THEN decode_int16_12byte(binary_data)
        ELSE IF data_len.val % 16 = 0
        THEN decode_xyzi_float32(binary_data)
        ELSE IF data_len.val % 12 = 0
        THEN decode_xyz_float32(binary_data)
        ELSE decode_int16_12byte(binary_data)

\* Mutant: `except ValueError`.
except_ValueError(exc) == exc.cls \in {"ValueError"}

\* `except Exception`: the classes the handler catches.
except_Exception(exc) == exc.cls \in {"TypeError", "ValueError"}

\* Mutant: the handler tags its result with a format.
decode_except_with_format(exc) ==
    [point_count |-> 0, points |-> <<>>, error |-> exc.msg, format |-> "unknown"]

\* The handler's return value.
decode_except(exc) ==
    [point_count |-> 0, points |-> <<>>, error |-> exc.msg]

\* decode(): what the caller gets, and how many records reach the logger.
decode(binary_data, metadata) ==
    LET r == decode_try(binary_data, metadata)
    IN  IF r.ok
        THEN [returned |-> TRUE, value |-> r.val, errors_logged |-> 0]
        ELSE IF except_Exception(r)
        THEN [returned |-> TRUE, value |-> decode_except(r), errors_logged |-> 1]
        ELSE [returned |-> FALSE, exc |-> r, errors_logged |-> 0]

\* ---------------------------------------------------------- state machine
VARIABLES
    buffer,     \* the binary_data argument of the current call
    meta,       \* the metadata argument of the current call
    pc,         \* "ready": call pending; "done": returned; "raised": exception escaped
    result,     \* the dict the current call returned
    logged,     \* records written to the module-level logger so far
    calls,      \* calls started so far
    first,      \* << >> or <<[binary_data, metadata, result]>> of the first call
    others      \* calls completed since the first on a different argument

vars == <<buffer, meta, pc, result, logged, calls, first, others>>

NoResult == [pending |-> TRUE]

Init ==
    /\ buffer \in Inputs
    /\ meta \in Metadatas
    /\ pc = "ready"
    /\ result = NoResult
    /\ logged = 0
    /\ calls = 1
    /\ first = << >>
    /\ others = 0

\* One call of decode(buffer, meta) on the decoder object.
Decode ==
    /\ pc = "ready"
    /\ LET out == decode(buffer, meta)
       IN  /\ pc' = IF out.returned THEN "done" ELSE "raised"
           /\ result' = IF out.returned THEN out.value ELSE NoResult
           /\ logged' = logged + out.errors_logged
           /\ first' = IF first = << >> /\ out.returned
                       THEN <<[binary_data |-> buffer, metadata |-> meta,
                               result |-> out.value]>>
                       ELSE first
           /\ others' = IF first # << >> /\ first[1].binary_data # buffer
                        THEN others + 1
                        ELSE others
    /\ UNCHANGED <<buffer, meta, calls>>

\* The caller makes another call, with any arguments.
NextCall ==
    /\ pc = "done"
    /\ calls < MaxCalls
    /\ buffer' \in Inputs
    /\ meta' \in Metadatas
    /\ pc' = "ready"
    /\ calls' = calls + 1
    /\ result' = NoResult
    /\ UNCHANGED <<logged, first, others>>

Next == Decode \/ NextCall

Spec == Init /\ [][Next]_vars

\* ================================================================ claims
Returned == pc = "done"

IsBuffer == buffer.type = "bytes"

BufLen == Len(buffer.mem)

Has(key) == key \in DOMAIN result

HasFormat(f) == Has("format") /\ result.format = f

Empty == [point_count |-> 0, points |-> << >>]

\* ------------------------------------------------------------------- C1
\* C1: on a byte buffer the layout is decided by len(buffer) alone, in this
\* order: length 0 gives point_count 0, empty points and no format; else a
\* length divisible by 12 gives "g1_slam_int16_12byte" (also when it is
\* divisible by 16, e.g. 48); else a length divisible by 16 gives
\* "xyzi_float32"; else the fallback's empty result.  The metadata argument
\* takes every value in the reachable states, so it cannot change this.
C1_LayoutByLengthAlone ==
    (Returned /\ IsBuffer) =>
        /\ BufLen = 0 =>
              /\ result.point_count = 0
              /\ result.points = << >>
              /\ ~Has("format")
        /\ (BufLen # 0 /\ BufLen % 12 = 0) => HasFormat("g1_slam_int16_12byte")
        /\ (BufLen % 12 # 0 /\ BufLen % 16 = 0) => HasFormat("xyzi_float32")
        /\ (BufLen % 12 # 0 /\ BufLen % 16 # 0) => result = Empty

\* A 48-byte buffer (divisible by 12 and by 16), decoded with metadata given.
C1_Witness ==
    /\ Returned /\ IsBuffer /\ BufLen = 48 /\ meta.given
    /\ HasFormat("g1_slam_int16_12byte")

\* ------------------------------------------------------------------- C2
\* The signed 16-bit value of the little-endian byte pair lo, hi.
Signed16(lo, hi) == IF hi >= 128 THEN lo + 256 * hi - 65536 ELSE lo + 256 * hi

\* Field j (0-based) of the 12-byte record i (0-based) of mem.
Field16(mem, i, j) == Signed16(mem[12 * i + 2 * j + 1], mem[12 * i + 2 * j + 2])

\* The coordinate c is the quotient f / 1000.
IsThousandth(c, f) == c.den > 0 /\ c.num * 1000 = f * c.den

\* mem with the last three fields of every 12-byte record set to byte v.
OverwriteReserved(mem, v) ==
    [k \in 1..Len(mem) |-> IF (k - 1) % 12 >= 6 THEN v ELSE mem[k]]

\* C2: a byte buffer of length 12*n, n >= 1, decodes to n points tagged
\* "g1_slam_int16_12byte", with no intensities and no error; coordinate j of
\* point i is field j of record i divided by 1000; and overwriting the last
\* three fields of every record leaves the result unchanged.
C2_QuantizedLayout ==
    (Returned /\ IsBuffer /\ BufLen > 0 /\ BufLen % 12 = 0) =>
        LET n == BufLen \div 12
        IN  /\ DOMAIN result = {"point_count", "points", "format"}
            /\ result.point_count = n
            /\ result.format = "g1_slam_int16_12byte"
            /\ Len(result.points) = n
            /\ \A i \in 0..(n - 1) :
                  /\ Len(result.points[i + 1]) = 3
                  /\ \A j \in 0..2 :
                        IsThousandth(result.points[i + 1][j + 1],
                                     Field16(buffer.mem, i, j))
            /\ \A v \in {0, 255} :
                  LET other == decode(Bytes(OverwriteReserved(buffer.mem, v)), meta)
                  IN  other.returned /\ other.value = result

\* Three records decoded, one coordinate of them negative, one reserved
\* field non-zero.
C2_Witness ==
    /\ Returned /\ IsBuffer /\ BufLen = 36
    /\ result.point_count = 3
    /\ \E i \in 1..3, j \in 1..3 : result.points[i][j].num < 0
    /\ \E i \in 0..2, j \in 3..5 : Field16(buffer.mem, i, j) # 0

\* ------------------------------------------------------------------- C3
\* x is the binary32 whose little-endian bytes are b1, b2, b3, b4.
IsFloat32Of(x, b1, b2, b3, b4) ==
    /\ x.sign \in 0..1
    /\ x.exponent \in 0..255
    /\ x.fraction \in 0..8388607
    /\ x.fraction % 256 = b1
    /\ (x.fraction \div 256) % 256 = b2
    /\ x.fraction \div 65536 + (x.exponent % 2) * 128 = b3
    /\ x.exponent \div 2 + x.sign * 128 = b4

\* x is 32-bit value j (0-based) of the 16-byte record i (0-based) of mem.
IsValue32(x, mem, i, j) ==
    LET at == 16 * i + 4 * j
    IN  IsFloat32Of(x, mem[at + 1], mem[at + 2], mem[at + 3], mem[at + 4])

\* C3: a byte buffer of length 16*m, m >= 1, not divisible by 12, decodes to
\* m points tagged "xyzi_float32" with no error; point i is the first three
\* 32-bit values of record i, unscaled, and intensities[i] the fourth.
C3_FloatXyziLayout ==
    (Returned /\ IsBuffer /\ BufLen > 0 /\ BufLen % 16 = 0 /\ BufLen % 12 # 0) =>
        LET m == BufLen \div 16
        IN  /\ DOMAIN result = {"point_count", "points", "intensities", "format"}
            /\ result.point_count = m
            /\ result.format = "xyzi_float32"
            /\ Len(result.points) = m
            /\ Len(result.intensities) = m
            /\ \A i \in 0..(m - 1) :
                  /\ Len(result.points[i + 1]) = 3
                  /\ \A j \in 0..2 :
                        IsValue32(result.points[i + 1][j + 1], buffer.mem, i, j)
                  /\ IsValue32(result.intensities[i + 1], buffer.mem, i, 3)

\* Two 16-byte records decoded, the second one's intensity differing from
\* its z.
C3_Witness ==
    /\ Returned /\ IsBuffer /\ BufLen = 32
    /\ result.point_count = 2
    /\ HasFormat("xyzi_float32")
    /\ result.intensities[2] # result.points[2][3]

\* ------------------------------------------------------------------- C4
\* The body of decode() fails on the current arguments.
DecodingFails == ~decode_try(buffer, meta).ok

\* C4: decode() is total.  A pending call returns; no call ends with an
\* exception escaping to the caller; what is returned is a result record;
\* and when taking the length or reinterpreting the bytes fails, the record
\* has point_count 0, empty points and a non-empty error.
C4_Total ==
    /\ pc # "raised"
    /\ pc = "ready" => decode(buffer, meta).returned
    /\ Returned => Has("point_count") /\ Has("points")
    /\ (Returned /\ (DecodingFails \/ buffer.type = "NoneType")) =>
          /\ result.point_count = 0
          /\ result.points = << >>
          /\ Has("error")
          /\ result.error # ""

\* The first call was on None (len() fails) and returned an error record;
\* the current call is on a str of length 12 (np.frombuffer fails) and
\* returned an error record too.
C4_Witness ==
    /\ Returned /\ first # << >>
    /\ first[1].binary_data.type = "NoneType"
    /\ "error" \in DOMAIN first[1].result
    /\ buffer.type = "str" /\ BufLen = 12
    /\ Has("error")
    /\ logged = 2

\* ------------------------------------------------------------------- C5
\* C5: a byte buffer whose length is divisible by neither 12 nor 16 gets
\* the quantized decoder's guard result: point_count 0, empty points, no
\* error, no format.  A zero-length buffer gets point_count 0, empty points
\* and no error as well.
C5_FallbackIsEmpty ==
    /\ (Returned /\ IsBuffer /\ BufLen % 12 # 0 /\ BufLen % 16 # 0) =>
          /\ result = Empty
          /\ decode_int16_12byte(buffer) = Ok(result)
    /\ (Returned /\ IsBuffer /\ BufLen = 0) =>
          /\ result.point_count = 0
          /\ result.points = << >>
          /\ ~Has("error")

\* A 13-byte buffer decoded to the empty result.
C5_Witness ==
    /\ Returned /\ IsBuffer /\ BufLen = 13
    /\ result = Empty
    /\ logged = 0

\* ------------------------------------------------------------------- C6
\* C6: every returned result has exactly point_count points, and exactly
\* point_count intensities when it has intensities.
C6_CountsAgree ==
    Returned =>
        /\ Len(result.points) = result.point_count
        /\ Has("intensities") => Len(result.intensities) = result.point_count

\* A result with two points and two intensities.
C6_Witness ==
    /\ Returned
    /\ Has("intensities")
    /\ result.point_count = 2
    /\ Len(result.points) = 2

\* ------------------------------------------------------------------- C7
\* C7: no returned result has both an error and a format, and a result with
\* an error has point_count 0 and empty points.
C7_ErrorExcludesFormat ==
    Returned =>
        /\ ~(Has("error") /\ Has("format"))
        /\ Has("error") => (result.point_count = 0 /\ result.points = << >>)

\* An error result, from an array of 2-byte items whose reshape fails.
C7_Witness ==
    /\ Returned
    /\ buffer.type = "array"
    /\ Has("error")
    /\ ~Has("format")

\* ------------------------------------------------------------------- C8
\* Bytes per record of a layout.
RecordSize(f) == IF f = "xyzi_float32" THEN 16 ELSE 12

\* C8: a returned result with points accounts for every byte of the buffer:
\* point_count times the record size of its format is the buffer's size.
C8_AllOrNothing ==
    (Returned /\ result.point_count > 0) =>
        /\ Has("format")
        /\ result.format \in {"g1_slam_int16_12byte", "xyz_float32", "xyzi_float32"}
        /\ result.point_count * RecordSize(result.format) = Len(buffer.mem)

\* Three 12-byte records decoded from 36 bytes.
C8_Witness ==
    /\ Returned /\ IsBuffer /\ BufLen = 36
    /\ result.point_count = 3
    /\ Len(result.points) = 3

\* ------------------------------------------------------------------- C9
\* C9: a call on the argument of the first call returns what the first call
\* returned, whatever the metadata of either call and whatever calls were
\* made in between.
C9_Deterministic ==
    (Returned /\ first # << >> /\ first[1].binary_data = buffer) =>
        result = first[1].result

\* The third call repeats the first call's buffer with other metadata, after
\* a call on another argument that logged an error.
C9_Witness ==
    /\ Returned /\ calls = 3 /\ others = 1 /\ logged = 1
    /\ first[1].binary_data = buffer
    /\ first[1].metadata # meta
    /\ IsBuffer /\ BufLen = 24
    /\ result.point_count = 2

\* ------------------------------------------------------------------ C10
\* C10: no returned result is tagged "xyz_float32".
C10_XyzUnreachable == Returned => ~HasFormat("xyz_float32")

\* A 12-byte buffer, one record of the float XYZ layout, decoded as the
\* quantized layout.
C10_Witness ==
    /\ Returned /\ IsBuffer /\ BufLen = 12
    /\ HasFormat("g1_slam_int16_12byte")
    /\ result.point_count = 1

====
